---- MODULE Spec2Model ----
(***************************************************************************)
(* A model of snatcher (src/snatcher.js): the pipeline that finds the main *)
(* script of a site, extracts its sourcemap reference, probes and fetches  *)
(* the map, and reconstructs the source tree the map embeds.               *)
(*                                                                         *)
(* Text is modelled at the level the code inspects it: source paths and    *)
(* script src values are sequences of one-character strings (so that       *)
(* toLowerCase, includes, the regular expressions and path.join are        *)
(* computed, not assumed); contents and script bodies are sequences of     *)
(* tokens.  Network responses are the environment's choice at each fetch.  *)
(***************************************************************************)
EXTENDS Integers, Sequences, FiniteSets, TLC

\* Largest number of entries in the "sources" array of a served map.
MaxSources == 2

Range(s) == {s[i] : i \in 1..Len(s)}

\* ------------------------------------------------------------------------
\* Strings as sequences of characters
\* ------------------------------------------------------------------------

Upper == <<"A","B","C","D","E","F","G","H","I","J","K","L","M",
           "N","O","P","Q","R","S","T","U","V","W","X","Y","Z">>
LowerOf == <<"a","b","c","d","e","f","g","h","i","j","k","l","m",
             "n","o","p","q","r","s","t","u","v","w","x","y","z">>

\* String.prototype.toLowerCase, one character
LowerChar(c) ==
    IF \E k \in 1..Len(Upper) : Upper[k] = c
    THEN LowerOf[CHOOSE k \in 1..Len(Upper) : Upper[k] = c]
    ELSE c

\* String.prototype.toLowerCase
ToLowerCase(s) == [i \in 1..Len(s) |-> LowerChar(s[i])]

\* true iff sub occurs in s starting at position i
OccursAt(s, sub, i) ==
    /\ i >= 1
    /\ i + Len(sub) - 1 <= Len(s)
    /\ \A k \in 1..Len(sub) : s[i + k - 1] = sub[k]

\* String.prototype.includes
Includes(s, sub) == \E i \in 1..(Len(s) + 1) : OccursAt(s, sub, i)

\* a regular expression of the form /lit$/
EndsWith(s, suf) == OccursAt(s, suf, Len(s) - Len(suf) + 1)

Slash == "/"

\* split a string on "/" (empty segments kept)
RECURSIVE SplitFrom(_, _, _, _)
SplitFrom(s, i, cur, acc) ==
    IF i > Len(s) THEN Append(acc, cur)
    ELSE IF s[i] = Slash THEN SplitFrom(s, i + 1, <<>>, Append(acc, cur))
    ELSE SplitFrom(s, i + 1, Append(cur, s[i]), acc)

Split(s) == SplitFrom(s, 1, <<>>, <<>>)

\* ------------------------------------------------------------------------
\* URLs
\* ------------------------------------------------------------------------

\* A URL is the non-empty sequence of the references it was resolved from;
\* the empty sequence is null ("not found").
NoUrl == <<>>

\* program argument <baseUrl>
BaseUrl == << <<"https://site/app/">> >>

\* references the WHATWG URL parser rejects (new URL throws TypeError)
UnresolvableRefs ==
    { <<"h","t","t","p","s",":","/","/","[","m","a","i","n">>,
      <<"http://[">> }

\* new URL(ref, base) throws
UrlThrows(ref) == ref \in UnresolvableRefs

\* new URL(ref, base).toString(), when it does not throw
Resolve(ref, base) == Append(base, ref)

\* ------------------------------------------------------------------------
\* HTML documents: the src values of the script tags, in document order
\* ------------------------------------------------------------------------

SrcMain    == <<"s","t","a","t","i","c","/","j","s","/","m","a","i","n",".","4","f","2","a",".","j","s">>
SrcMain2   == <<"j","s","/","m","a","i","n","2",".","j","s">>
SrcVendor  == <<"j","s","/","v","e","n","d","o","r",".","j","s">>
SrcUpper   == <<"j","s","/","M","a","i","n",".","j","s">>
SrcBad     == <<"h","t","t","p","s",":","/","/","[","m","a","i","n">>

HtmlDocs ==
    { <<>>,
      <<SrcVendor, SrcUpper>>,
      <<SrcVendor, SrcMain, SrcMain2>>,
      <<SrcMain2, SrcMain>>,
      <<SrcBad, SrcMain>> }


\* FirstMainIndex, had the loop kept the last match (no break at line 46)
LastMainIndex(html) ==
    IF \E i \in 1..Len(html) : Includes(html[i], <<"m","a","i","n">>)
    THEN CHOOSE i \in 1..Len(html) :
            /\ Includes(html[i], <<"m","a","i","n">>)
            /\ \A k \in (i + 1)..Len(html) : ~Includes(html[k], <<"m","a","i","n">>)
    ELSE 0

\* lines 33-49 of findMainScript: the resolved URL of the first script src
\* that contains "main"; new URL throwing is caught at line 50 and gives null
FirstMainIndex(html) ==
    IF \E i \in 1..Len(html) : Includes(html[i], <<"m","a","i","n">>)
    THEN CHOOSE i \in 1..Len(html) :
            /\ Includes(html[i], <<"m","a","i","n">>)
            /\ \A k \in 1..(i - 1) : ~Includes(html[k], <<"m","a","i","n">>)
    ELSE 0

ScanScriptTags(html, baseUrl) ==
    LET i == FirstMainIndex(html) IN
    IF i = 0 THEN NoUrl
    ELSE IF UrlThrows(html[i]) THEN NoUrl
    ELSE Resolve(html[i], baseUrl)

\* ------------------------------------------------------------------------
\* Script bodies: a response body is a string (a sequence of lines, each a
\* sequence of tokens) or something axios parsed into a non-string
\* ------------------------------------------------------------------------

Directive == "//# sourceMappingURL="
Space     == " "

JsBodies ==
    { [isString |-> FALSE, lines |-> <<>>],
      [isString |-> TRUE,  lines |-> << <<"code;">> >>],
      [isString |-> TRUE,  lines |-> << <<"code;">>, <<Directive, "main.4f2a.js.map">> >>],
      [isString |-> TRUE,  lines |-> << <<"code;", Directive, Space, "main.4f2a.js.map", Space>> >>],
      [isString |-> TRUE,  lines |-> << <<Directive, "main.4f2a.js.map">>, <<Directive, "other.js.map">> >>],
      [isString |-> TRUE,  lines |-> << <<Directive, Space>>, <<Directive, "other.js.map">> >>],
      [isString |-> TRUE,  lines |-> << <<Directive, "http://[">> >>] }

\* String.prototype.trim on a token sequence
RECURSIVE TrimLeft(_)
TrimLeft(t) == IF t # <<>> /\ Head(t) = Space THEN TrimLeft(Tail(t)) ELSE t

RECURSIVE TrimRight(_)
TrimRight(t) ==
    IF t # <<>> /\ t[Len(t)] = Space THEN TrimRight(SubSeq(t, 1, Len(t) - 1)) ELSE t

\* Trim, had line 75 called trimStart
TrimStartOnly(t) == TrimLeft(t)

Trim(t) == TrimRight(TrimLeft(t))

\* jsContent.match(/\/\/# sourceMappingURL=(.*)$/m): the first line holding
\* the directive, at its first occurrence in that line; match[1] is the
\* rest of that line
DirectiveMatch(lines) ==
    IF \E l \in 1..Len(lines) : Directive \in Range(lines[l])
    THEN LET l == CHOOSE l \in 1..Len(lines) :
                     /\ Directive \in Range(lines[l])
                     /\ \A k \in 1..(l - 1) : Directive \notin Range(lines[k])
             c == CHOOSE c \in 1..Len(lines[l]) :
                     /\ lines[l][c] = Directive
                     /\ \A k \in 1..(c - 1) : lines[l][k] # Directive
         IN  [found |-> TRUE, capture |-> SubSeq(lines[l], c + 1, Len(lines[l]))]
    ELSE [found |-> FALSE, capture |-> <<>>]

\* lines 63-80 of getMapUrlFromJs, given the response body
ExtractMapUrl(jsContent, jsUrl) ==
    IF ~jsContent.isString THEN NoUrl
    ELSE LET match == DirectiveMatch(jsContent.lines) IN
         IF ~match.found THEN NoUrl
         ELSE LET mapRelative == Trim(match.capture) IN
              IF mapRelative = <<>> THEN NoUrl
              ELSE IF UrlThrows(mapRelative) THEN NoUrl
              ELSE Resolve(mapRelative, jsUrl)

\* ------------------------------------------------------------------------
\* Sourcemap documents
\* ------------------------------------------------------------------------

\* The characters of the source paths maps may declare
SourceChars ==
  "src/App.js" :> <<"s","r","c","/","A","p","p",".","j","s">> @@
  "/src/App.js" :> <<"/","s","r","c","/","A","p","p",".","j","s">> @@
  "node_modules/react/index.js" :> <<"n","o","d","e","_","m","o","d","u","l","e","s","/","r","e","a","c","t","/","i","n","d","e","x",".","j","s">> @@
  "node_modules/react/a.png" :> <<"n","o","d","e","_","m","o","d","u","l","e","s","/","r","e","a","c","t","/","a",".","p","n","g">> @@
  "node_modules/lodash/fp.js" :> <<"n","o","d","e","_","m","o","d","u","l","e","s","/","l","o","d","a","s","h","/","f","p",".","j","s">> @@
  "Node_Modules/Vue/x.js" :> <<"N","o","d","e","_","M","o","d","u","l","e","s","/","V","u","e","/","x",".","j","s">> @@
  "webpack/bootstrap" :> <<"w","e","b","p","a","c","k","/","b","o","o","t","s","t","r","a","p">> @@
  "src/logo.png" :> <<"s","r","c","/","l","o","g","o",".","p","n","g">> @@
  "src/logo.png/raw.js" :> <<"s","r","c","/","l","o","g","o",".","p","n","g","/","r","a","w",".","j","s">> @@
  "src/Icon.SVG" :> <<"s","r","c","/","I","c","o","n",".","S","V","G">> @@
  "src/bad.gif" :> <<"s","r","c","/","b","a","d",".","g","i","f">> @@
  "src/empty.css" :> <<"s","r","c","/","e","m","p","t","y",".","c","s","s">> @@
  "src/gone.js" :> <<"s","r","c","/","g","o","n","e",".","j","s">> @@
  "../escape.js" :> <<".",".","/","e","s","c","a","p","e",".","j","s">>

SourceNames == DOMAIN SourceChars

PublicPath == "__webpack_public_path__ + "
Quote      == "\""

TextApp   == <<"export default App;">>
TextOther == <<"export default Other;">>
TextLib   == <<"module.exports = lib;">>
TextSvg   == <<"<svg/>", PublicPath, Quote, Quote>>
StubLogo  == <<"module.exports = ", PublicPath, Quote, "static/media/logo.abc123.png", Quote, ";">>
StubBad   == <<"module.exports = ", PublicPath, Quote, "http://[", Quote, ";">>

\* what the decoder holds for a path: sourcesContent[i], or null
Present(text) == [present |-> TRUE, text |-> text]
Null          == [present |-> FALSE, text |-> <<>>]

\* consumer.sourceContentFor(source, true)
sourceContentFor ==
  "src/App.js" :> Present(TextApp) @@
  "/src/App.js" :> Present(TextOther) @@
  "node_modules/react/index.js" :> Present(TextLib) @@
  "node_modules/react/a.png" :> Present(StubLogo) @@
  "node_modules/lodash/fp.js" :> Present(TextLib) @@
  "Node_Modules/Vue/x.js" :> Present(TextLib) @@
  "webpack/bootstrap" :> Present(TextLib) @@
  "src/logo.png" :> Present(StubLogo) @@
  "src/logo.png/raw.js" :> Present(StubLogo) @@
  "src/Icon.SVG" :> Present(TextSvg) @@
  "src/bad.gif" :> Present(StubBad) @@
  "src/empty.css" :> Present(<<>>) @@
  "src/gone.js" :> Null @@
  "../escape.js" :> Present(TextApp)

\* Falsy, had the content check of lines 124-127 been left out
FalsyNever(sourceCode) == FALSE

\* Falsy, had line 124 tested for null only
FalsyNullOnly(sourceCode) == ~sourceCode.present

\* the value of !sourceCode (line 124): null and the empty string are falsy
Falsy(sourceCode) == ~sourceCode.present \/ sourceCode.text = <<>>

RECURSIVE SeqsUpTo(_, _)
SeqsUpTo(S, n) ==
    IF n = 0 THEN { <<>> }
    ELSE LET shorter == SeqsUpTo(S, n - 1) IN
         shorter \cup { Append(s, x) : s \in { t \in shorter : Len(t) = n - 1 }, x \in S }

\* a served map document: malformed, or a "sources" array
Malformed == [wellFormed |-> FALSE, sources |-> <<>>]
MapDocs ==
    { Malformed } \cup
    { [wellFormed |-> TRUE, sources |-> s] : s \in SeqsUpTo(SourceNames, MaxSources) }


\* ------------------------------------------------------------------------
\* Classification helpers (restoreFromMap, lines 132-154)
\* ------------------------------------------------------------------------

NodeModulesSlash == <<"n","o","d","e","_","m","o","d","u","l","e","s","/">>
WebpackSlash     == <<"w","e","b","p","a","c","k","/">>

\* skipIt, had the test been made on the path as declared
skipItCaseSensitive(source) ==
    Includes(source, NodeModulesSlash) \/ Includes(source, WebpackSlash)

\* lines 132-133: lower.includes('node_modules/') || lower.includes('webpack/')
skipIt(source) ==
    LET lower == ToLowerCase(source) IN
    Includes(lower, NodeModulesSlash) \/ Includes(lower, WebpackSlash)

\* position of the first "/" of s at or after i, 0 when there is none
NextSlash(s, i) ==
    IF \E j \in i..Len(s) : s[j] = Slash
    THEN CHOOSE j \in i..Len(s) : s[j] = Slash /\ \A k \in i..(j - 1) : s[k] # Slash
    ELSE 0

\* the regular expression /node_modules\/([^/]+)\// matches at position i
PkgMatchesAt(s, i) ==
    /\ OccursAt(s, NodeModulesSlash, i)
    /\ NextSlash(s, i + Len(NodeModulesSlash)) > i + Len(NodeModulesSlash)

\* line 137: source.match(/node_modules\/([^/]+)\//), leftmost match,
\* on the path as declared (not lowercased)
pkgMatch(source) ==
    IF \E i \in 1..Len(source) : PkgMatchesAt(source, i)
    THEN LET i == CHOOSE i \in 1..Len(source) :
                     /\ PkgMatchesAt(source, i)
                     /\ \A k \in 1..(i - 1) : ~PkgMatchesAt(source, k)
             b == i + Len(NodeModulesSlash)
         IN  [found |-> TRUE, pkg |-> SubSeq(source, b, NextSlash(source, b) - 1)]
    ELSE [found |-> FALSE, pkg |-> <<>>]

\* SetAdd, had the packages been pushed onto an array
SetAddAlways(set, x) == Append(set, x)

\* SetAdd, had new packages been put in front
SetAddFront(set, x) == IF x \in Range(set) THEN set ELSE <<x>> \o set

\* Set.prototype.add on an insertion-ordered set (lines 109, 139)
SetAdd(set, x) == IF x \in Range(set) THEN set ELSE Append(set, x)

ImageExts ==
    { <<".","p","n","g">>, <<".","j","p","g">>, <<".","j","p","e","g">>,
      <<".","g","i","f">>, <<".","s","v","g">>, <<".","w","e","b","p">>,
      <<".","b","m","p">> }

\* line 150: /\.(png|jpe?g|gif|svg|webp|bmp)$/i.test(source)
IsImagePath(source) == \E ext \in ImageExts : EndsWith(ToLowerCase(source), ext)

\* /__webpack_public_path__ \+ "([^"]+)"/ matches the token text at i
StubMatchesAt(text, i) ==
    /\ i + 3 <= Len(text)
    /\ text[i] = PublicPath
    /\ text[i + 1] = Quote
    /\ text[i + 2] # Quote
    /\ \E j \in (i + 3)..Len(text) : text[j] = Quote

\* line 151: sourceCode.match(/__webpack_public_path__ \+ "([^"]+)"/)
stubMatch(text) ==
    IF \E i \in 1..Len(text) : StubMatchesAt(text, i)
    THEN LET i == CHOOSE i \in 1..Len(text) :
                     /\ StubMatchesAt(text, i)
                     /\ \A k \in 1..(i - 1) : ~StubMatchesAt(text, k)
             j == CHOOSE j \in (i + 3)..Len(text) :
                     /\ text[j] = Quote
                     /\ \A k \in (i + 3)..(j - 1) : text[k] # Quote
         IN  [found |-> TRUE, hashedPath |-> SubSeq(text, i + 2, j - 1)]
    ELSE [found |-> FALSE, hashedPath |-> <<>>]

\* ------------------------------------------------------------------------
\* Paths on disk: a normalized path is its sequence of segments
\* ------------------------------------------------------------------------

\* option --output, default value (line 237)
OutputDir == <<"r","e","c","o","v","e","r","e","d","-","f","i","l","e","s">>

DotDot == <<".", ".">>

\* path.normalize of a relative path, segment by segment
RECURSIVE NormalizeFrom(_, _, _)
NormalizeFrom(segs, i, acc) ==
    IF i > Len(segs) THEN acc
    ELSE IF segs[i] = <<>> \/ segs[i] = <<".">> THEN NormalizeFrom(segs, i + 1, acc)
    ELSE IF segs[i] = DotDot
         THEN IF acc # <<>> /\ acc[Len(acc)] # DotDot
              THEN NormalizeFrom(segs, i + 1, SubSeq(acc, 1, Len(acc) - 1))
              ELSE NormalizeFrom(segs, i + 1, Append(acc, DotDot))
    ELSE NormalizeFrom(segs, i + 1, Append(acc, segs[i]))

\* path.join(a, b) for a relative a
PathJoin(a, b) ==
    LET joined == IF b = <<>> THEN a ELSE a \o <<Slash>> \o b
    IN  NormalizeFrom(Split(joined), 1, <<>>)

\* path.dirname of a normalized relative path (<<>> is ".")
Dirname(p) == IF p = <<>> THEN <<>> ELSE SubSeq(p, 1, Len(p) - 1)

\* the directory and all its ancestors, which mkdir -p creates or requires
Ancestors(dir) == { SubSeq(dir, 1, k) : k \in 1..Len(dir) }


ReportName == <<"s","n","a","t","c","h","-","r","e","p","o","r","t",".","j","s","o","n">>

\* the body an asset URL serves (resp.data), never equal to a source text
AssetBytes(hashedPath) == <<"<binary>">> \o hashedPath

\* ------------------------------------------------------------------------
\* State
\* ------------------------------------------------------------------------

VARIABLES
    pc,             \* the stage main/restoreFromMap is about to run
    failedAt,       \* the stage whose failure ended the run ("" if none)
    net,            \* the HTTP requests issued so far, with their outcome
    html,           \* findMainScript: res.data, while in scope
    jsContent,      \* getMapUrlFromJs: the response body, while in scope
    mainScriptUrl,  \* main: mainScriptUrl
    mapUrl,         \* main: mapUrl
    mapData,        \* restoreFromMap: the fetched map document
    consumer,       \* the SourceMapConsumer: "none", "live" or "destroyed"
    allSources,     \* restoreFromMap: consumer.sources
    idx,            \* position of the for..of loop in allSources
    report,         \* restoreFromMap: report
    packageSet,     \* restoreFromMap: packageSet, in insertion order
    dirs,           \* directories created by mkdirSync
    writes,         \* the writeFileSync calls of source files that succeeded
    reportFile,     \* snatch-report.json: <<>> or <<its content>>
    exitCode,       \* <<>> while running, <<code>> once the process exited
    prior           \* the files under the working directory before the run

vars == <<pc, failedAt, net, html, jsContent, mainScriptUrl, mapUrl, mapData,
          consumer, allSources, idx, report, packageSet, dirs, writes,
          reportFile, exitCode, prior>>

\* outcomes of a request: 0 is a transport error, otherwise the HTTP status
Outcomes == {0, 200, 404}

\* values of new Date().toISOString()
Clock == {"2025-02-01T12:34:56.789Z", "2025-02-01T12:35:10.000Z"}

\* what the working directory may hold when the run starts: nothing, or a
\* plain file named recovered-files/src
PriorContents == { {}, { <<OutputDir, <<"s","r","c">>>> } }

NoBody == [isString |-> FALSE, lines |-> <<>>]

Request(method, url, status) == [method |-> method, url |-> url, status |-> status]

Init ==
    /\ pc = "FetchHTML"
    /\ failedAt = ""
    /\ net = <<>>
    /\ html = <<>>
    /\ jsContent = NoBody
    /\ mainScriptUrl = NoUrl
    /\ mapUrl = NoUrl
    /\ mapData = Malformed
    /\ consumer = "none"
    /\ allSources = <<>>
    /\ idx = 0
    /\ report = [baseUrl |-> BaseUrl, mapUrl |-> NoUrl, timestamp |-> "",
                 totalSources |-> 0, writtenSources |-> 0, skippedSources |-> 0,
                 possibleNodePackages |-> <<>>]
    /\ packageSet = <<>>
    /\ dirs = {}
    /\ writes = <<>>
    /\ reportFile = <<>>
    /\ exitCode = <<>>
    /\ prior \in PriorContents

\* Fail, had a failing stage restarted the pipeline
FailRetry(stage) ==
    /\ pc' = "FetchHTML"
    /\ failedAt' = stage

\* a stage fails: the run ends there
Fail(stage) ==
    /\ pc' = "Failed"
    /\ failedAt' = stage

\* ------------------------------------------------------------------------
\* Discovery (main, findMainScript, getMapUrlFromJs)
\* ------------------------------------------------------------------------

\* findMainScript lines 22-30 and 50-53: GET the page
FetchHTML ==
    /\ pc = "FetchHTML"
    /\ \E status \in Outcomes :
         /\ net' = Append(net, Request("GET", BaseUrl, status))
         /\ IF status = 200
            THEN /\ \E doc \in HtmlDocs : html' = doc
                 /\ pc' = "LocateScript"
                 /\ UNCHANGED failedAt
            ELSE /\ Fail("FetchHTML")
                 /\ UNCHANGED html
    /\ UNCHANGED <<jsContent, mainScriptUrl, mapUrl, mapData, consumer,
                   allSources, idx, report, packageSet, dirs, writes,
                   reportFile, exitCode, prior>>

\* findMainScript lines 32-49, main lines 200-204
LocateScript ==
    /\ pc = "LocateScript"
    /\ LET url == ScanScriptTags(html, BaseUrl) IN
         IF url = NoUrl
         THEN /\ Fail("LocateScript")
              /\ UNCHANGED mainScriptUrl
         ELSE /\ mainScriptUrl' = url
              /\ pc' = "FetchScript"
              /\ UNCHANGED failedAt
    /\ html' = <<>>
    /\ UNCHANGED <<net, jsContent, mapUrl, mapData, consumer, allSources, idx,
                   report, packageSet, dirs, writes, reportFile, exitCode, prior>>

\* the status getMapUrlFromJs requires of the script response: line 62
\* passes validateStatus: () => true and nothing reads the status
ScriptStatusAccepted(status) == status # 0

\* getMapUrlFromJs lines 60-62 and 81-84: GET the script
FetchScript ==
    /\ pc = "FetchScript"
    /\ \E status \in Outcomes :
         /\ net' = Append(net, Request("GET", mainScriptUrl, status))
         /\ IF ScriptStatusAccepted(status)
            THEN /\ \E body \in JsBodies : jsContent' = body
                 /\ pc' = "ExtractMapRef"
                 /\ UNCHANGED failedAt
            ELSE /\ Fail("FetchScript")
                 /\ UNCHANGED jsContent
    /\ UNCHANGED <<html, mainScriptUrl, mapUrl, mapData, consumer, allSources,
                   idx, report, packageSet, dirs, writes, reportFile, exitCode, prior>>

\* getMapUrlFromJs lines 63-80, main lines 206-210
ExtractMapRef ==
    /\ pc = "ExtractMapRef"
    /\ LET url == ExtractMapUrl(jsContent, mainScriptUrl) IN
         IF url = NoUrl
         THEN /\ Fail("ExtractMapRef")
              /\ UNCHANGED mapUrl
         ELSE /\ mapUrl' = url
              /\ pc' = "VerifyMapReachable"
              /\ UNCHANGED failedAt
    /\ jsContent' = NoBody
    /\ UNCHANGED <<net, html, mainScriptUrl, mapData, consumer, allSources, idx,
                   report, packageSet, dirs, writes, reportFile, exitCode, prior>>

\* VerifyMapReachable, had a failed probe only been logged
VerifyMapReachableLogOnly ==
    /\ pc = "VerifyMapReachable"
    /\ \E status \in Outcomes :
         net' = Append(net, Request("HEAD", mapUrl, status))
    /\ pc' = "FetchMap"
    /\ UNCHANGED <<failedAt, html, jsContent, mainScriptUrl, mapUrl, mapData,
                   consumer, allSources, idx, report, packageSet, dirs, writes,
                   reportFile, exitCode, prior>>

\* main lines 212-222: HEAD the map
VerifyMapReachable ==
    /\ pc = "VerifyMapReachable"
    /\ \E status \in Outcomes :
         /\ net' = Append(net, Request("HEAD", mapUrl, status))
         /\ IF status = 200
            THEN pc' = "FetchMap" /\ UNCHANGED failedAt
            ELSE Fail("VerifyMapReachable")
    /\ UNCHANGED <<html, jsContent, mainScriptUrl, mapUrl, mapData, consumer,
                   allSources, idx, report, packageSet, dirs, writes,
                   reportFile, exitCode, prior>>


\* ------------------------------------------------------------------------
\* Reconstruction (restoreFromMap)
\* ------------------------------------------------------------------------

\* restoreFromMap lines 95-112 and 191-193: create the report, GET the map
\* (axios rejects on a transport error and on a non-2xx status)
FetchMap ==
    /\ pc = "FetchMap"
    /\ \E timestamp \in Clock :
         report' = [report EXCEPT !.mapUrl = mapUrl, !.timestamp = timestamp]
    /\ \E status \in Outcomes :
         /\ net' = Append(net, Request("GET", mapUrl, status))
         /\ IF status = 200
            THEN /\ \E doc \in MapDocs : mapData' = doc
                 /\ pc' = "DecodeMap"
                 /\ UNCHANGED failedAt
            ELSE /\ Fail("FetchMap")
                 /\ UNCHANGED mapData
    /\ UNCHANGED <<html, jsContent, mainScriptUrl, mapUrl, consumer, allSources,
                   idx, packageSet, dirs, writes, reportFile, exitCode, prior>>

\* DecodeMap, had the output directory been created before decoding
DecodeMapMkdirFirst ==
    /\ pc = "DecodeMap"
    /\ dirs' = dirs \cup Ancestors(PathJoin(OutputDir, <<>>))
    /\ IF mapData.wellFormed
       THEN /\ consumer' = "live"
            /\ allSources' = mapData.sources
            /\ report' = [report EXCEPT !.totalSources = Len(mapData.sources)]
            /\ idx' = 1
            /\ pc' = "ClassifyWrite"
            /\ UNCHANGED failedAt
       ELSE /\ Fail("DecodeMap")
            /\ UNCHANGED <<consumer, allSources, report, idx>>
    /\ UNCHANGED <<net, html, jsContent, mainScriptUrl, mapUrl, mapData,
                   packageSet, writes, reportFile, exitCode, prior>>

\* restoreFromMap lines 113-120: decode, create the output directory, count
DecodeMap ==
    /\ pc = "DecodeMap"
    /\ IF mapData.wellFormed
       THEN /\ consumer' = "live"
            /\ dirs' = dirs \cup Ancestors(PathJoin(OutputDir, <<>>))
            /\ allSources' = mapData.sources
            /\ report' = [report EXCEPT !.totalSources = Len(mapData.sources)]
            /\ idx' = 1
            /\ pc' = "ClassifyWrite"
            /\ UNCHANGED failedAt
       ELSE /\ Fail("DecodeMap")
            /\ UNCHANGED <<consumer, dirs, allSources, report, idx>>
    /\ UNCHANGED <<net, html, jsContent, mainScriptUrl, mapUrl, mapData,
                   packageSet, writes, reportFile, exitCode, prior>>

WrittenPaths == { writes[i].localPath : i \in 1..Len(writes) }

\* the plain files on disk
Files == WrittenPaths \cup prior

\* fs.mkdirSync(dir, {recursive: true}) throws: an ancestor is a file
MkdirThrows(dir) == \E a \in Ancestors(dir) : a \in Files

\* the directories mkdirSync leaves behind
MkdirResult(dir) ==
    dirs \cup { a \in Ancestors(dir) : Ancestors(a) \cap Files = {} }

\* fs.writeFileSync(localPath, ..) throws: the path is a directory
WriteThrows(localPath, dirsNow) == localPath = <<>> \/ localPath \in dirsNow

\* the loop goes on to the next source (continue, or the end of the body)
NextSource ==
    /\ idx' = idx + 1
    /\ pc' = "ClassifyWrite"
    /\ UNCHANGED failedAt

\* an exception leaves the loop for the catch at lines 191-193
Abort ==
    /\ Fail("ClassifyWrite")
    /\ UNCHANGED idx

\* WriteFile, had an existing destination been left as it is
WriteFileIfAbsent(source, localPath, data) ==
    IF WriteThrows(localPath, dirs')
    THEN /\ Abort
         /\ UNCHANGED <<writes, report>>
    ELSE IF localPath \in WrittenPaths
    THEN /\ NextSource
         /\ UNCHANGED <<writes, report>>
    ELSE /\ writes' = Append(writes, [source |-> source, index |-> idx,
                                      localPath |-> localPath, data |-> data])
         /\ report' = [report EXCEPT !.writtenSources = @ + 1]
         /\ NextSource

\* fs.writeFileSync(localPath, data) and line 174, or the exception
WriteFile(source, localPath, data) ==
    IF WriteThrows(localPath, dirs')
    THEN /\ Abort
         /\ UNCHANGED <<writes, report>>
    ELSE /\ writes' = Append(writes, [source |-> source, index |-> idx,
                                      localPath |-> localPath, data |-> data])
         /\ report' = [report EXCEPT !.writtenSources = @ + 1]
         /\ NextSource

\* ImageData, had the catch block written the (missing) response
ImageDataNoFallback(status, hashedPath, text) == AssetBytes(hashedPath)

\* ImageData, had the stub's text been written whatever the fetch gave
ImageDataAlwaysText(status, hashedPath, text) == text

\* lines 157-164: what reaches the destination of an image stub: the
\* fetched bytes, or the stub's own text when axios.get rejected (a
\* transport error or a non-2xx status)
ImageData(status, hashedPath, text) ==
    IF status = 200 THEN AssetBytes(hashedPath) ELSE text

\* restoreFromMap lines 122-175: one iteration of the loop over allSources
ClassifyStep ==
    /\ pc = "ClassifyWrite"
    /\ idx <= Len(allSources)
    /\ LET source     == allSources[idx]
           chars      == SourceChars[source]
           sourceCode == sourceContentFor[source]
           localPath  == PathJoin(OutputDir, chars)
           match      == stubMatch(sourceCode.text)
       IN
       IF Falsy(sourceCode)
       THEN /\ NextSource
            /\ UNCHANGED <<net, report, packageSet, dirs, writes>>
       ELSE IF skipIt(chars)
       THEN /\ report' = [report EXCEPT !.skippedSources = @ + 1]
            /\ packageSet' = IF pkgMatch(chars).found
                             THEN SetAdd(packageSet, pkgMatch(chars).pkg)
                             ELSE packageSet
            /\ NextSource
            /\ UNCHANGED <<net, dirs, writes>>
       ELSE IF MkdirThrows(Dirname(localPath))
       THEN /\ dirs' = MkdirResult(Dirname(localPath))
            /\ Abort
            /\ UNCHANGED <<net, report, packageSet, writes>>
       ELSE /\ dirs' = MkdirResult(Dirname(localPath))
            /\ UNCHANGED packageSet
            /\ IF IsImagePath(chars) /\ match.found
               THEN IF UrlThrows(match.hashedPath)
                    THEN /\ Abort
                         /\ UNCHANGED <<net, report, writes>>
                    ELSE \E status \in Outcomes :
                           /\ net' = Append(net, Request("GET",
                                        Resolve(match.hashedPath, BaseUrl), status))
                           /\ WriteFile(source, localPath,
                                        ImageData(status, match.hashedPath,
                                                  sourceCode.text))
               ELSE /\ WriteFile(source, localPath, sourceCode.text)
                    /\ UNCHANGED net
    /\ UNCHANGED <<html, jsContent, mainScriptUrl, mapUrl, mapData, consumer,
                   allSources, reportFile, exitCode, prior>>

\* restoreFromMap lines 177-180: release the decoder, finalize the packages
FinishClassify ==
    /\ pc = "ClassifyWrite"
    /\ idx > Len(allSources)
    /\ consumer' = "destroyed"
    /\ report' = [report EXCEPT !.possibleNodePackages = packageSet]
    /\ pc' = "EmitReport"
    /\ UNCHANGED <<failedAt, net, html, jsContent, mainScriptUrl, mapUrl,
                   mapData, allSources, idx, packageSet, dirs, writes,
                   reportFile, exitCode, prior>>

\* restoreFromMap lines 183-190: write snatch-report.json
EmitReport ==
    /\ pc = "EmitReport"
    /\ IF WriteThrows(PathJoin(OutputDir, ReportName), dirs)
       THEN /\ Fail("EmitReport")
            /\ UNCHANGED reportFile
       ELSE /\ reportFile' = <<report>>
            /\ pc' = "Done"
            /\ UNCHANGED failedAt
    /\ UNCHANGED <<net, html, jsContent, mainScriptUrl, mapUrl, mapData,
                   consumer, allSources, idx, report, packageSet, dirs, writes,
                   exitCode, prior>>

\* the status the process ends with: nothing in the program calls
\* process.exit or sets process.exitCode, and every error is caught
\* (lines 50, 81, 191, 219), so the event loop drains and node exits 0
ExitStatus(outcome) == 0

\* program.action lines 239-241: main returns, the process ends
Exit ==
    /\ pc \in {"Done", "Failed"}
    /\ exitCode = <<>>
    /\ exitCode' = <<ExitStatus(pc)>>
    /\ UNCHANGED <<pc, failedAt, net, html, jsContent, mainScriptUrl, mapUrl,
                   mapData, consumer, allSources, idx, report, packageSet,
                   dirs, writes, reportFile, prior>>

Next ==
    \/ FetchHTML
    \/ LocateScript
    \/ FetchScript
    \/ ExtractMapRef
    \/ VerifyMapReachable
    \/ FetchMap
    \/ DecodeMap
    \/ ClassifyStep
    \/ FinishClassify
    \/ EmitReport
    \/ Exit

Spec == Init /\ [][Next]_vars

\* the pipeline is one sequential async function: whenever a step is
\* possible the event loop eventually runs it
FairSpec == Spec /\ WF_vars(Next)


\* ------------------------------------------------------------------------
\* Properties
\* ------------------------------------------------------------------------

Stages == <<"FetchHTML", "LocateScript", "FetchScript", "ExtractMapRef",
            "VerifyMapReachable", "FetchMap", "DecodeMap", "ClassifyWrite",
            "EmitReport", "Done">>

StageIndex(stage) == CHOOSE k \in 1..Len(Stages) : Stages[k] = stage

\* the declared entries, by position
Entries == 1..Len(allSources)
CharsOf(i) == SourceChars[allSources[i]]
ContentOf(i) == sourceContentFor[allSources[i]]

Absent(i) == ~ContentOf(i).present
AbsentOrEmpty(i) == ~ContentOf(i).present \/ Len(ContentOf(i).text) = 0

\* the lowercased path contains 'node_modules/' or 'webpack/'
Excluded(i) ==
    \/ Includes(ToLowerCase(CharsOf(i)), NodeModulesSlash)
    \/ Includes(ToLowerCase(CharsOf(i)), WebpackSlash)

\* a file was written for entry i
WrittenFor(i) == \E k \in 1..Len(writes) : writes[k].index = i

Occurrences(seq, x) == Cardinality({ k \in 1..Len(seq) : seq[k] = x })

Reported == reportFile # <<>>

\* C1 as stated: in the emitted report totalSources = writtenSources +
\* skippedSources + the number of declared entries whose content is absent.
C1_TotalIsWrittenSkippedAbsent ==
    Reported =>
        reportFile[1].totalSources =
            reportFile[1].writtenSources + reportFile[1].skippedSources
            + Cardinality({ i \in Entries : Absent(i) })

\* C1 amended: in the emitted report totalSources = writtenSources +
\* skippedSources + the number of declared entries whose content is absent
\* or the empty string; every entry is in exactly one of the three buckets.
C1_TotalIsWrittenSkippedNoContent ==
    Reported =>
        /\ reportFile[1].totalSources = Len(allSources)
        /\ reportFile[1].totalSources =
              reportFile[1].writtenSources + reportFile[1].skippedSources
              + Cardinality({ i \in Entries : AbsentOrEmpty(i) })
        /\ reportFile[1].writtenSources =
              Cardinality({ i \in Entries : WrittenFor(i) })
        /\ \A i \in Entries : WrittenFor(i) => ~AbsentOrEmpty(i) /\ ~Excluded(i)

\* a report over a counted entry (written or skipped) and an entry whose
\* content is the empty string
C1_Witness ==
    /\ Reported
    /\ reportFile[1].writtenSources + reportFile[1].skippedSources >= 1
    /\ \E i \in Entries : ContentOf(i).present /\ AbsentOrEmpty(i)

\* C2 as stated: once classification is complete, a file was written for a
\* declared path iff its lowercased form contains neither substring.
C2_WrittenIffNotExcluded ==
    pc \in {"EmitReport", "Done"} =>
        \A i \in Entries : WrittenFor(i) <=> ~Excluded(i)

\* C2 amended: once classification is complete, for every declared path
\* whose embedded content is present and not empty, a file was written iff
\* the lowercased path contains neither 'node_modules/' nor 'webpack/'; for
\* a path with absent or empty content no file is written.
C2_WrittenIffNotExcludedGivenContent ==
    pc \in {"EmitReport", "Done"} =>
        \A i \in Entries :
            WrittenFor(i) <=> (~AbsentOrEmpty(i) /\ ~Excluded(i))

\* classification completed over a written path and a skipped path that is
\* excluded only in its lowercased form
C2_Witness ==
    /\ pc = "Done"
    /\ \E i \in Entries : WrittenFor(i)
    /\ \E i \in Entries :
          /\ ~AbsentOrEmpty(i) /\ ~WrittenFor(i)
          /\ ~Includes(CharsOf(i), NodeModulesSlash)
          /\ ~Includes(CharsOf(i), WebpackSlash)

\* the discovery requests: the page, the script, the map probe and the map
Discovery(i) ==
    \/ net[i].url = BaseUrl
    \/ mainScriptUrl # NoUrl /\ net[i].url = mainScriptUrl
    \/ mapUrl # NoUrl /\ net[i].url = mapUrl

\* C3: a discovery request that did not get a success status ends the run:
\* no request follows it, the stages after the map fetch are never
\* reached, and no directory, file or report exists; after a not-found or
\* a decode error the run is in Failed, equally without output.
C3_FailureEndsRun ==
    /\ \A i \in 1..Len(net) :
          Discovery(i) /\ net[i].status # 200 =>
              /\ i = Len(net)
              /\ consumer = "none"
              /\ dirs = {} /\ writes = <<>> /\ reportFile = <<>>
    /\ failedAt \in {"LocateScript", "ExtractMapRef", "DecodeMap"} =>
              /\ pc = "Failed"
              /\ dirs = {} /\ writes = <<>> /\ reportFile = <<>>

\* C4: the stage only ever moves to the next stage of the fixed order or,
\* from a stage that is not terminal, to Failed; nothing leaves Done or
\* Failed, so no stage is entered twice or re-entered.
C4_StagesInOrder ==
    [][ pc' # pc =>
          /\ pc \notin {"Done", "Failed"}
          /\ \/ pc' = "Failed"
             \/ /\ pc' # "Failed"
                /\ StageIndex(pc') = StageIndex(pc) + 1 ]_vars

\* a run went through every stage, with at least two entries classified
C4_Witness == pc = "Done" /\ Len(allSources) >= 2 /\ Len(net) >= 4

PreDecodeStages == {"FetchHTML", "LocateScript", "FetchScript", "ExtractMapRef",
                    "VerifyMapReachable", "FetchMap", "DecodeMap"}

\* C5: in a run that has not got past DecodeMap, and so in a run that
\* failed at or before it, no directory has been created, no source file
\* written and no report written.
C5_NoOutputBeforeDecode ==
    (pc \in PreDecodeStages \/ (pc = "Failed" /\ failedAt \in PreDecodeStages)) =>
        /\ dirs = {}
        /\ writes = <<>>
        /\ reportFile = <<>>

\* the run failed on a map document that is not a well-formed sourcemap
C5_Witness ==
    /\ pc = "Failed"
    /\ failedAt = "DecodeMap"
    /\ exitCode # <<>>

\* C6: the exit code is 0 exactly when the run reached Done.
C6_ExitCodeContract ==
    exitCode # <<>> => (exitCode[1] = 0 <=> pc = "Done")

\* entry i was counted as skipped
Skipped(i) == ~AbsentOrEmpty(i) /\ Excluded(i)

\* C7: in the emitted report, the package of every skipped entry whose path
\* matches node_modules/<pkg>/ occurs exactly once in possibleNodePackages,
\* and nothing occurs there twice.
C7_PackageListedOnce ==
    Reported =>
        /\ \A i \in Entries :
              Skipped(i) /\ pkgMatch(CharsOf(i)).found =>
                  Occurrences(reportFile[1].possibleNodePackages,
                              pkgMatch(CharsOf(i)).pkg) = 1
        /\ \A k \in 1..Len(reportFile[1].possibleNodePackages) :
              Occurrences(reportFile[1].possibleNodePackages,
                          reportFile[1].possibleNodePackages[k]) = 1

\* a report over two different skipped entries of the same package
C7_Witness ==
    /\ Reported
    /\ \E i, j \in Entries :
          /\ i # j
          /\ allSources[i] # allSources[j]
          /\ Skipped(i) /\ Skipped(j)
          /\ pkgMatch(CharsOf(i)).found
          /\ pkgMatch(CharsOf(i)) = pkgMatch(CharsOf(j))

\* C8: once the map is decoded no error of a single entry ends the run:
\* the run never fails during classification.
C8_PerSourceErrorsIsolated ==
    consumer # "none" => pc # "Failed"

\* the entry the loop is at holds an image stub whose asset URL resolves
\* and whose destination can be written
AtWritableStub ==
    /\ pc = "ClassifyWrite"
    /\ idx \in Entries
    /\ ~AbsentOrEmpty(idx)
    /\ ~Excluded(idx)
    /\ IsImagePath(CharsOf(idx))
    /\ stubMatch(ContentOf(idx).text).found
    /\ ~UrlThrows(stubMatch(ContentOf(idx).text).hashedPath)
    /\ PathJoin(OutputDir, CharsOf(idx)) \notin dirs
    /\ Ancestors(Dirname(PathJoin(OutputDir, CharsOf(idx)))) \cap Files = {}

\* C9: when the asset fetch of an image stub fails (transport error or
\* non-success status) and the destination can be written, the stub's own
\* text is written there, writtenSources grows by exactly one and the loop
\* goes on to the next entry.
C9_FailedFetchFallsBack ==
    [][ ( /\ AtWritableStub
          /\ Len(net') = Len(net) + 1
          /\ net'[Len(net')].status # 200 )
        =>
        ( /\ writes' = Append(writes,
                [source |-> allSources[idx], index |-> idx,
                 localPath |-> PathJoin(OutputDir, CharsOf(idx)),
                 data |-> ContentOf(idx).text])
          /\ report'.writtenSources = report.writtenSources + 1
          /\ report'.skippedSources = report.skippedSources
          /\ idx' = idx + 1
          /\ pc' = "ClassifyWrite" ) ]_vars

\* the report of a run in which the asset fetch of an image stub failed and
\* the stub's text was written, followed by a later entry
C9_Witness ==
    /\ Reported
    /\ \E k \in 1..Len(writes) :
          /\ IsImagePath(SourceChars[writes[k].source])
          /\ writes[k].data = StubLogo
          /\ writes[k].index < Len(allSources)
    /\ \E n \in 1..Len(net) : ~Discovery(n) /\ net[n].status # 200

\* C10: every file written holds the fetched asset bytes exactly when the
\* path has an image extension, the content holds the placeholder pattern
\* and the asset fetch of that step succeeded; otherwise it holds the
\* embedded text verbatim.
C10_WrittenData ==
    [][ Len(writes') = Len(writes) + 1 =>
          LET w       == writes'[Len(writes')]
              chars   == SourceChars[w.source]
              text    == sourceContentFor[w.source].text
              fetched == /\ Len(net') = Len(net) + 1
                         /\ net'[Len(net')].status = 200
              isStub  == IsImagePath(chars) /\ stubMatch(text).found
          IN  /\ w.index = idx
              /\ w.source = allSources[idx]
              /\ (isStub /\ fetched) =>
                    /\ w.data = AssetBytes(stubMatch(text).hashedPath)
                    /\ w.data # text
              /\ ~(isStub /\ fetched) => w.data = text
              /\ ~isStub => net' = net ]_vars

\* one run wrote fetched bytes for an image stub and the verbatim text of
\* an image path whose content has no placeholder
C10_Witness ==
    /\ \E k \in 1..Len(writes) :
          /\ IsImagePath(SourceChars[writes[k].source])
          /\ writes[k].data = AssetBytes(stubMatch(StubLogo).hashedPath)
    /\ \E k \in 1..Len(writes) :
          /\ IsImagePath(SourceChars[writes[k].source])
          /\ ~stubMatch(sourceContentFor[writes[k].source].text).found
          /\ writes[k].data = sourceContentFor[writes[k].source].text


Main == <<"m","a","i","n">>

\* request n is the probe of the map / the download of the map
IsProbe(n) == net[n].method = "HEAD"
IsMapGet(n) == net[n].method = "GET" /\ mapUrl # NoUrl /\ net[n].url = mapUrl

\* C11: every GET of the map comes after a HEAD of the same URL that was
\* answered 200, and once a HEAD failed (transport error or another status)
\* no GET of the map is ever issued.
C11_ProbeBeforeMapGet ==
    /\ \A n \in 1..Len(net) :
          IsMapGet(n) =>
              \E m \in 1..(n - 1) :
                  IsProbe(m) /\ net[m].url = net[n].url /\ net[m].status = 200
    /\ (\E m \in 1..Len(net) : IsProbe(m) /\ net[m].status # 200) =>
          /\ \A n \in 1..Len(net) : ~IsMapGet(n)
          /\ pc = "Failed"
          /\ failedAt = "VerifyMapReachable"

\* the map was downloaded, after its probe
C11_Witness ==
    /\ \E n \in 1..Len(net) : IsMapGet(n)
    /\ \E m \in 1..Len(net) : IsProbe(m)

\* C12: findMainScript gives the resolved URL of the first src, in document
\* order, that contains 'main' (case-sensitively) when that src resolves,
\* and not-found when no src contains 'main'.
C12_FirstMainScript ==
    [][ pc = "LocateScript" =>
          LET mains == { i \in 1..Len(html) : Includes(html[i], Main) } IN
          /\ mains = {} =>
                /\ pc' = "Failed"
                /\ failedAt' = "LocateScript"
                /\ mainScriptUrl' = NoUrl
          /\ \A i \in mains :
                ((\A k \in mains : i <= k) /\ ~UrlThrows(html[i])) =>
                    /\ mainScriptUrl' = Resolve(html[i], BaseUrl)
                    /\ pc' = "FetchScript" ]_vars

\* the script chosen is the first of two whose src contains 'main'
C12_Witness ==
    /\ pc = "FetchScript"
    /\ mainScriptUrl = Resolve(SrcMain2, BaseUrl)

\* C13: a src that contains 'main' but does not resolve is passed over: the
\* first src that contains 'main' and resolves is returned.
C13_ScanContinuesPastUnresolvable ==
    [][ pc = "LocateScript" =>
          \A i \in 1..Len(html) :
              ( /\ Includes(html[i], Main)
                /\ ~UrlThrows(html[i])
                /\ \A k \in 1..(i - 1) :
                      Includes(html[k], Main) => UrlThrows(html[k]) )
              =>
              ( /\ mainScriptUrl' = Resolve(html[i], BaseUrl)
                /\ pc' = "FetchScript" ) ]_vars


\* the distinct elements of a sequence, in order of first occurrence
RECURSIVE FirstSeen(_)
FirstSeen(seq) ==
    IF seq = <<>> THEN <<>>
    ELSE LET front == FirstSeen(SubSeq(seq, 1, Len(seq) - 1))
             x     == seq[Len(seq)]
         IN  IF \E k \in 1..Len(front) : front[k] = x THEN front
             ELSE Append(front, x)

\* the packages named by the first n declared entries, one per skipped
\* entry that names one, in declaration order
RECURSIVE NamedPackages(_)
NamedPackages(n) ==
    IF n = 0 THEN <<>>
    ELSE IF Skipped(n) /\ pkgMatch(CharsOf(n)).found
         THEN Append(NamedPackages(n - 1), pkgMatch(CharsOf(n)).pkg)
         ELSE NamedPackages(n - 1)

Stripped(t) ==
    IF \A k \in 1..Len(t) : t[k] = Space THEN <<>>
    ELSE LET solid == { k \in 1..Len(t) : t[k] # Space }
             first == CHOOSE k \in solid : \A j \in solid : k <= j
             last  == CHOOSE k \in solid : \A j \in solid : j <= k
         IN  SubSeq(t, first, last)

\* C15: getMapUrlFromJs gives the value of the first sourceMappingURL
\* directive of the text (the rest of its line), without surrounding
\* whitespace, resolved against the script's URL when it resolves; it gives
\* not-found when the body is not a text, when no line holds the directive
\* and when the value is empty once trimmed.
C15_FirstDirectiveTrimmedResolved ==
    [][ pc = "ExtractMapRef" =>
          LET lines == jsContent.lines
              holds == IF jsContent.isString
                       THEN { l \in 1..Len(lines) :
                                \E c \in 1..Len(lines[l]) : lines[l][c] = Directive }
                       ELSE {}
              notFound == /\ pc' = "Failed"
                          /\ failedAt' = "ExtractMapRef"
                          /\ mapUrl' = NoUrl
          IN
          /\ holds = {} => notFound
          /\ \A l \in holds : \A c \in 1..Len(lines[l]) :
                ( /\ \A k \in holds : l <= k
                  /\ lines[l][c] = Directive
                  /\ \A k \in 1..(c - 1) : lines[l][k] # Directive )
                =>
                LET value == Stripped(SubSeq(lines[l], c + 1, Len(lines[l]))) IN
                /\ value = <<>> => notFound
                /\ (value # <<>> /\ ~UrlThrows(value)) =>
                      /\ mapUrl' = Resolve(value, mainScriptUrl)
                      /\ mapUrl' # Resolve(value, BaseUrl)
                      /\ pc' = "VerifyMapReachable" ]_vars

\* a map URL was extracted and resolved against the script's URL
C15_Witness ==
    /\ pc = "VerifyMapReachable"
    /\ mainScriptUrl # NoUrl
    /\ mapUrl = Resolve(<<"main.4f2a.js.map">>, mainScriptUrl)

\* C16: a run whose map was decoded writes snatch-report.json before it
\* ends, and the report is only ever written once every declared entry has
\* been processed, with the final counters and package set.
C16_ReportOnceAfterLastEntry ==
    /\ (exitCode # <<>> /\ consumer # "none") => Reported
    /\ Reported =>
          /\ idx > Len(allSources)
          /\ reportFile[1] = report
          /\ reportFile[1].possibleNodePackages = packageSet

\* C17: a run never ends with a decoder that was constructed and not
\* released.
C17_ConsumerReleased ==
    exitCode # <<>> => consumer # "live"

\* a normalized path lies inside the output directory
InsideOutput(p) == Len(p) >= 2 /\ p[1] = OutputDir /\ DotDot \notin Range(p)

\* C18: every file written for a source entry lies inside the output
\* directory.
C18_WritesInsideOutput ==
    \A k \in 1..Len(writes) : InsideOutput(writes[k].localPath)

\* the segment that follows 'node_modules/' in the lowercased path, in the
\* case of the declared path
SegmentAfterNodeModules(chars) ==
    LET lower == ToLowerCase(chars)
        i == CHOOSE i \in 1..Len(lower) :
                 /\ PkgMatchesAt(lower, i)
                 /\ \A k \in 1..(i - 1) : ~PkgMatchesAt(lower, k)
        b == i + Len(NodeModulesSlash)
    IN  SubSeq(chars, b, NextSlash(lower, b) - 1)

\* C19: in the emitted report, every skipped entry whose lowercased path
\* contains 'node_modules/<segment>/' has its segment, in its original
\* case, in possibleNodePackages.
C19_PackageWhateverCase ==
    Reported =>
        \A i \in Entries :
            (Skipped(i) /\ pkgMatch(ToLowerCase(CharsOf(i))).found) =>
                SegmentAfterNodeModules(CharsOf(i))
                    \in Range(reportFile[1].possibleNodePackages)

\* C20: processing an entry that is skipped or has no content creates no
\* directory, writes no file and issues no request; it only moves the loop
\* on and, for a skipped entry, changes skippedSources and the package set.
C20_SkipHasNoEffect ==
    [][ ( /\ pc = "ClassifyWrite"
          /\ idx \in Entries
          /\ (AbsentOrEmpty(idx) \/ Excluded(idx)) )
        =>
        ( /\ dirs' = dirs
          /\ writes' = writes
          /\ net' = net
          /\ reportFile' = reportFile
          /\ consumer' = consumer
          /\ pc' = "ClassifyWrite"
          /\ idx' = idx + 1
          /\ report'.writtenSources = report.writtenSources
          /\ report'.totalSources = report.totalSources
          /\ AbsentOrEmpty(idx) => (report' = report /\ packageSet' = packageSet)
          /\ ~AbsentOrEmpty(idx) =>
                report'.skippedSources = report.skippedSources + 1 ) ]_vars

\* a skipped entry with an image extension and the placeholder pattern has
\* been processed, and an entry without content too
C20_Witness ==
    /\ pc = "ClassifyWrite"
    /\ \E i \in 1..(idx - 1) :
          /\ i \in Entries
          /\ Skipped(i)
          /\ IsImagePath(CharsOf(i))
          /\ stubMatch(ContentOf(i).text).found
    /\ \E i \in 1..(idx - 1) : i \in Entries /\ Absent(i)
    /\ \A n \in 1..Len(net) : Discovery(n)
    /\ writes = <<>>


\* what the file at localPath holds: fs.writeFileSync replaces the file, so
\* it is the data of the last write to that path
FileData(localPath) ==
    LET ks == { k \in 1..Len(writes) : writes[k].localPath = localPath }
        last == CHOOSE k \in ks : \A j \in ks : j <= k
    IN  writes[last].data

\* the destination of the entry at position i (line 146)
Destination(i) == PathJoin(OutputDir, CharsOf(i))

\* the entry at position i has content and is not skipped
Writable(i) == ~AbsentOrEmpty(i) /\ ~Excluded(i)

\* C21: once the loop has passed two entries with content and a Write
\* verdict that share a destination, both were written in declaration
\* order, the destination holds the data of the later one, and
\* writtenSources counted every write, so it exceeds the number of distinct
\* files.
C21_LastWriteWins ==
    \A i \in Entries : \A j \in Entries :
        ( /\ i < j
          /\ j < idx
          /\ Writable(i)
          /\ Writable(j)
          /\ Destination(i) = Destination(j) )
        =>
        LET same  == { k \in Entries :
                         k < idx /\ Writable(k) /\ Destination(k) = Destination(i) }
            later == CHOOSE k \in same : \A l \in same : l <= k
        IN
        /\ \E a \in 1..Len(writes) : \E b \in 1..Len(writes) :
              /\ a < b
              /\ writes[a].index = i
              /\ writes[b].index = j
              /\ writes[a].localPath = Destination(i)
              /\ writes[b].localPath = Destination(i)
        /\ \E c \in 1..Len(writes) :
              /\ writes[c].index = later
              /\ FileData(Destination(i)) = writes[c].data
              /\ ~(IsImagePath(CharsOf(later)) /\ stubMatch(ContentOf(later).text).found)
                    => FileData(Destination(i)) = ContentOf(later).text
        /\ report.writtenSources = Len(writes)
        /\ report.writtenSources > Cardinality(WrittenPaths)

\* two entries with different names and contents were written to one
\* destination, which holds the content of the second
C21_Witness ==
    /\ idx > 2
    /\ Len(allSources) >= 2
    /\ allSources[1] = "src/App.js"
    /\ allSources[2] = "/src/App.js"
    /\ Destination(1) = Destination(2)
    /\ FileData(Destination(2)) = TextOther
    /\ TextOther # TextApp
    /\ report.writtenSources = 2
    /\ Cardinality(WrittenPaths) = 1

====
